---- MODULE Spec2Model ----
(***************************************************************************)
(* State-machine model of poroelastic/problem.py: the boundary-condition  *)
(* registration API of PoroelasticProblem and its generator solve().       *)
(*                                                                         *)
(* Times (dt, tf, t) are Python floats: IEEE-754 binary64 values, held as   *)
(* [hi, lo, e] with value (hi * 2^27 + lo) * 2^e and a 53-bit significand; *)
(* `t += dt` is the rounded (nearest, ties to even) float addition.        *)
(* Only non-negative finite normal values occur.                            *)
(*                                                                         *)
(* dolfin Function objects live in `heap`, keyed by object identity; the   *)
(* attributes of the problem object (`self`) and the coefficients captured *)
(* by the fluid form (`MForm`) hold identities, so that rebinding an       *)
(* attribute and mutating an object in place are different things.         *)
(* The numerical result of a nonlinear solve is produced by the FE toolkit *)
(* and is abstracted to a stamp: the number of solves applied to the field.*)
(* Derived fields (pressure, flow) record the values they were built from. *)
(***************************************************************************)
EXTENDS Integers, Sequences, FiniteSets, TLC

\* ---- bounds of the model ------------------------------------------------
MaxDt == 2
MaxTf == 3
NumConds == 2
MaxCalls == 1

\* ---- program constants --------------------------------------------------
\* Variant: an inner loop of two passes.
InnerItersShort == 1 + 1

InnerIters == 3
GeomDim == 2

VARIABLES
    params,          \* params.params['dt'], params.params['tf']
    dt,              \* local dt of solve(), read once when it starts
    timeName,        \* what the module-level name `time` resolves to
    sbcs, fbcs,      \* self.sbcs, self.fbcs
    tconditions,     \* self.tconditions
    condT,           \* per condition object: its attribute t ({} = not set)
    calls,           \* log of the registration calls made so far
    self,            \* attributes Us, Us_n, mf, mf_n, Uf, p (object ids)
    MForm,           \* coefficient objects captured by the fluid form
    heap,            \* object id -> value of the Function
    nextId,          \* next fresh object id
    pc,              \* position of the generator solve()
    t,               \* local t of solve()
    x,               \* loop variable of `for x in range(3)`
    trace,           \* solves / coupling steps done in the current outer step
    out,             \* tuples received by the consumer, in order
    emitted,         \* per tuple: the values its fields had when it was yielded
    err              \* exception that left the generator ("none" if none)

vars == <<params, dt, timeName, sbcs, fbcs, tconditions, condT, calls, self, MForm,
          heap, nextId, pc, t, x, trace, out, emitted, err>>

regVars == <<sbcs, fbcs, tconditions, calls>>
objVars == <<self, MForm, heap, nextId>>
parVars == <<params, dt, timeName>>

Conds == 1..NumConds
Components == 0..(GeomDim - 1)

Range(s) == {s[i] : i \in DOMAIN s}

\* ---- Python floats (binary64) ----------------------------------------------
Dbl(hi, lo, e) == [hi |-> hi, lo |-> lo, e |-> e]

FZero == Dbl(0, 0, 0)

IsZero(a) == a.hi = 0 /\ a.lo = 0

\* What was shifted out of a significand, compared with half a unit in the
\* last place: "zero", "below", "half" or "above".
Remainder(r, half) ==
    IF r = 0 THEN "zero"
    ELSE IF r < half THEN "below"
    ELSE IF r = half THEN "half"
    ELSE "above"

\* The significand of b divided by 2^d: quotient limbs and remainder class.
ShiftRight(b, d) ==
    IF d = 0 THEN [hi |-> b.hi, lo |-> b.lo, frac |-> "zero"]
    ELSE IF d <= 27 THEN
        [hi |-> b.hi \div 2^d,
         lo |-> (b.lo \div 2^d) + (b.hi % 2^d) * 2^(27 - d),
         frac |-> Remainder(b.lo % 2^d, 2^(d - 1))]
    ELSE IF d <= 54 THEN
        LET rh == b.hi % 2^(d - 27)
            hh == 2^(d - 28)
        IN  [hi |-> 0,
             lo |-> b.hi \div 2^(d - 27),
             frac |-> IF rh = hh THEN (IF b.lo = 0 THEN "half" ELSE "above")
                      ELSE IF rh > hh THEN "above"
                      ELSE IF rh = 0 /\ b.lo = 0 THEN "zero"
                      ELSE "below"]
    ELSE [hi |-> 0, lo |-> 0, frac |-> "below"]

\* One more unit in the last place; a significand reaching 2^53 becomes 2^52
\* with the exponent raised.
RoundUp(hi, lo, e) ==
    IF lo + 1 < 2^27 THEN Dbl(hi, lo + 1, e)
    ELSE IF hi + 1 < 2^26 THEN Dbl(hi + 1, 0, e)
    ELSE Dbl(2^25, 0, e + 1)

\* Round to nearest, ties to even.
RoundNearest(hi, lo, e, frac) ==
    IF frac = "above" \/ (frac = "half" /\ lo % 2 = 1)
        THEN RoundUp(hi, lo, e)
        ELSE Dbl(hi, lo, e)

\* a + b on floats.
FAdd(a, b) ==
    IF IsZero(a) THEN b
    ELSE IF IsZero(b) THEN a
    ELSE LET u == IF a.e >= b.e THEN a ELSE b
             v == IF a.e >= b.e THEN b ELSE a
             s == ShiftRight(v, u.e - v.e)
             lo == (u.lo + s.lo) % 2^27
             hi == u.hi + s.hi + ((u.lo + s.lo) \div 2^27)
         IN  IF hi < 2^26 THEN RoundNearest(hi, lo, u.e, s.frac)
             ELSE RoundNearest(hi \div 2, (lo \div 2) + (hi % 2) * 2^26, u.e + 1,
                               IF lo % 2 = 0
                                 THEN (IF s.frac = "zero" THEN "zero" ELSE "below")
                                 ELSE (IF s.frac = "zero" THEN "half" ELSE "above"))

\* a < b on floats.
FLess(a, b) ==
    IF IsZero(b) THEN FALSE
    ELSE IF IsZero(a) THEN TRUE
    ELSE \/ a.e < b.e
         \/ a.e = b.e /\ a.hi < b.hi
         \/ a.e = b.e /\ a.hi = b.hi /\ a.lo < b.lo

\* float(k) for a natural number k below 2^26.
FromInt(k) ==
    IF k = 0 THEN FZero
    ELSE LET L == CHOOSE n \in 1..26 : 2^(n - 1) <= k /\ k < 2^n
         IN  Dbl(k * 2^(26 - L), 0, L - 53)

\* The floats Python reads from these decimal literals.
Literal ==
    ("0.01" :> Dbl(42949672, 128849019, -59)) @@
    ("0.02" :> Dbl(42949672, 128849019, -58)) @@
    ("0.03" :> Dbl(64424509, 59055800, -58)) @@
    ("0.04" :> Dbl(42949672, 128849019, -57)) @@
    ("0.05" :> Dbl(53687091, 26843546, -57)) @@
    ("0.3" :> Dbl(40265318, 53687091, -54)) @@
    ("0.9" :> Dbl(60397977, 80530637, -53)) @@
    ("0.7" :> Dbl(46976204, 107374182, -53)) @@
    ("2.1" :> Dbl(35232153, 80530637, -51)) @@
    ("0.011" :> Dbl(47244640, 34359738, -59)) @@
    ("0.055" :> Dbl(59055800, 42949673, -57))

\* The runs considered: whole seconds, and decimal steps.
TimeInputs ==
    {[dt |-> FromInt(a), tf |-> FromInt(b)] : a \in 1..MaxDt, b \in 0..MaxTf}
    \cup {[dt |-> Literal["0.01"], tf |-> Literal["0.05"]],
          [dt |-> Literal["0.02"], tf |-> Literal["0.05"]],
          [dt |-> Literal["0.3"], tf |-> Literal["0.9"]],
          [dt |-> Literal["0.7"], tf |-> Literal["2.1"]],
          [dt |-> Literal["0.011"], tf |-> Literal["0.055"]]}

\* ---- values of derived fields -------------------------------------------
ZeroField == <<"zero">>

PressureOf(m, us) == <<"dPsi_dJphi_minus_L", m, us>>

FlowOf(m, us, usn, pr) ==
    [phi |-> <<m, us>>, darcy |-> pr, rate |-> us - usn]

ZeroFlow == [phi |-> <<0, 0>>, darcy |-> ZeroField, rate |-> 0]

\* ---- object lifetime ----------------------------------------------------
Live(s, f, o) ==
    {s.Us, s.Us_n, s.mf, s.mf_n, s.Uf, s.p}
        \cup {f.m, f.m_n, f.Us, f.Us_n, f.p}
        \cup {o[i].Uf : i \in DOMAIN o} \cup {o[i].Us : i \in DOMAIN o}

Collect(h, s, f, o) == [i \in (DOMAIN h) \cap Live(s, f, o) |-> h[i]]

\* ---- construction -------------------------------------------------------
Init ==
    /\ params \in TimeInputs
    /\ dt = FZero
    /\ timeName \in {"function", "undefined"}
    /\ sbcs = <<>>
    /\ fbcs = <<>>
    /\ tconditions = <<>>
    /\ condT = [c \in Conds |-> {}]
    /\ calls = <<>>
    /\ self = [Us |-> 1, Us_n |-> 2, mf |-> 3, mf_n |-> 4, Uf |-> 5, p |-> 6]
    /\ MForm = [m |-> 3, m_n |-> 4, Us |-> 1, Us_n |-> 2, p |-> 6]
    /\ heap = (1 :> 0) @@ (2 :> 0) @@ (3 :> 0) @@ (4 :> 0)
                @@ (5 :> ZeroFlow) @@ (6 :> ZeroField)
    /\ nextId = 7
    /\ pc = "start"
    /\ t = FZero
    /\ x = 0
    /\ trace = <<>>
    /\ out = <<>>
    /\ emitted = <<>>
    /\ err = "none"

\* The generator is suspended (or not yet started, or finished): only then
\* can the single-threaded caller run other code.
CallerRuns == pc \in {"start", "suspended", "done", "failed"}

\* ---- registration API ---------------------------------------------------
add_solid_dirichlet_condition(condition, n, time) ==
    /\ CallerRuns
    /\ Len(calls) < MaxCalls
    /\ sbcs' = Append(sbcs,
                 [space |-> IF n # -1 THEN <<"FS_S", 0, n>> ELSE <<"FS_S", 0>>,
                  value |-> condition])
    /\ tconditions' = IF time THEN Append(tconditions, condition)
                              ELSE tconditions
    /\ calls' = Append(calls, [op |-> "solid", value |-> condition,
                               time |-> time, raised |-> FALSE])
    /\ UNCHANGED <<fbcs, condT, objVars, parVars, pc, t, x, trace, out, emitted, err>>

\* `time` is no parameter of this method: a keyword time=... lands in kwargs
\* and the test reads the module-level name `time`.
add_fluid_dirichlet_condition(condition, time) ==
    /\ CallerRuns
    /\ Len(calls) < MaxCalls
    /\ fbcs' = Append(fbcs, [space |-> <<"FS_F">>, value |-> condition])
    /\ tconditions' = IF timeName = "function"
                        THEN Append(tconditions, condition)
                        ELSE tconditions
    /\ calls' = Append(calls, [op |-> "fluid", value |-> condition,
                               time |-> time,
                               raised |-> (timeName = "undefined")])
    /\ UNCHANGED <<sbcs, condT, objVars, parVars, pc, t, x, trace, out, emitted, err>>

\* ---- solve(): the generator ---------------------------------------------
\* First next(): lines 197-210 run, then the loop is entered.
Start ==
    /\ pc = "start"
    /\ t' = FZero
    /\ dt' = params.dt
    /\ pc' = "while"
    /\ UNCHANGED <<regVars, condT, objVars, params, timeName, x, trace, out,
                   emitted, err>>

\* Variant: the loop test written `t <= tf`.
WhileInclusive ==
    /\ pc = "while"
    /\ pc' = IF FLess(t, params.tf) \/ t = params.tf THEN "tcond" ELSE "done"
    /\ UNCHANGED <<regVars, condT, objVars, parVars, t, x, trace, out, emitted, err>>

While ==
    /\ pc = "while"
    /\ pc' = IF FLess(t, params.tf) THEN "tcond" ELSE "done"
    /\ UNCHANGED <<regVars, condT, objVars, parVars, t, x, trace, out, emitted, err>>

\* Variant: the conditions are set to the end of the step, t + dt.
UpdateTimeConditionsAhead ==
    /\ pc = "tcond"
    /\ condT' = [c \in Conds |->
                    IF c \in Range(tconditions) THEN {FAdd(t, dt)} ELSE condT[c]]
    /\ x' = 0
    /\ trace' = <<>>
    /\ pc' = "fluid"
    /\ UNCHANGED <<regVars, objVars, parVars, t, out, emitted, err>>

UpdateTimeConditions ==
    /\ pc = "tcond"
    /\ condT' = [c \in Conds |->
                    IF c \in Range(tconditions) THEN {t} ELSE condT[c]]
    /\ x' = 0
    /\ trace' = <<>>
    /\ pc' = "fluid"
    /\ UNCHANGED <<regVars, objVars, parVars, t, out, emitted, err>>

\* Variant: a failed fluid solve is reported and tried again.
FluidSolveRetry ==
    /\ pc = "fluid"
    /\ \/ /\ heap' = [heap EXCEPT ![self.mf] = @ + 1]
          /\ trace' = Append(trace, "fluid")
          /\ pc' = "solid"
          /\ err' = err
       \/ /\ heap' \in {heap, [heap EXCEPT ![self.mf] = @ + 1]}
          /\ trace' = trace
          /\ pc' = "fluid"
          /\ err' = "RuntimeError"
    /\ UNCHANGED <<regVars, condT, self, MForm, nextId, parVars, t, x, out, emitted>>

\* msol.solve(): Newton on MForm, unknown self.mf, mutated in place; raises
\* on non-convergence (the field may hold the last iterate).
FluidSolve ==
    /\ pc = "fluid"
    /\ \/ /\ heap' = [heap EXCEPT ![self.mf] = @ + 1]
          /\ trace' = Append(trace, "fluid")
          /\ pc' = "solid"
          /\ err' = err
       \/ /\ heap' \in {heap, [heap EXCEPT ![self.mf] = @ + 1]}
          /\ trace' = trace
          /\ pc' = "failed"
          /\ err' = "RuntimeError"
    /\ UNCHANGED <<regVars, condT, self, MForm, nextId, parVars, t, x, out, emitted>>

SolidSolve ==
    /\ pc = "solid"
    /\ \/ /\ heap' = [heap EXCEPT ![self.Us] = @ + 1]
          /\ trace' = Append(trace, "solid")
          /\ pc' = "coupling"
          /\ err' = err
       \/ /\ heap' \in {heap, [heap EXCEPT ![self.Us] = @ + 1]}
          /\ trace' = trace
          /\ pc' = "failed"
          /\ err' = "RuntimeError"
    /\ UNCHANGED <<regVars, condT, self, MForm, nextId, parVars, t, x, out, emitted>>

\* self.p = project(...): a new Function is bound to the attribute.
fluid_solid_coupling ==
    /\ pc = "coupling"
    /\ self' = [self EXCEPT !.p = nextId]
    /\ heap' = Collect(heap @@ (nextId :> PressureOf(heap[self.mf], heap[self.Us])),
                       self', MForm, out)
    /\ nextId' = nextId + 1
    /\ trace' = Append(trace, "coupling")
    /\ x' = x + 1
    /\ pc' = IF x + 1 < InnerIters THEN "fluid" ELSE "snapshot"
    /\ UNCHANGED <<regVars, condT, MForm, parVars, t, out, emitted, err>>

\* Variant: the assignments written the other way round.
SnapshotReversed ==
    /\ pc = "snapshot"
    /\ heap' = [heap EXCEPT ![self.mf] = heap[self.mf_n],
                            ![self.Us] = heap[self.Us_n]]
    /\ pc' = "flow"
    /\ UNCHANGED <<regVars, condT, self, MForm, nextId, parVars, t, x, trace,
                   out, emitted, err>>

\* Variant: only the fluid mass is stored as previous.
SnapshotFluidOnly ==
    /\ pc = "snapshot"
    /\ heap' = [heap EXCEPT ![self.mf_n] = heap[self.mf]]
    /\ pc' = "flow"
    /\ UNCHANGED <<regVars, condT, self, MForm, nextId, parVars, t, x, trace,
                   out, emitted, err>>

\* Store current solution as previous (assign copies the values).
Snapshot ==
    /\ pc = "snapshot"
    /\ heap' = [heap EXCEPT ![self.mf_n] = heap[self.mf],
                            ![self.Us_n] = heap[self.Us]]
    /\ pc' = "flow"
    /\ UNCHANGED <<regVars, condT, self, MForm, nextId, parVars, t, x, trace,
                   out, emitted, err>>

\* Variant: the flow is assigned into the existing Function self.Uf.
calculate_flow_vector_inplace ==
    /\ pc = "flow"
    /\ heap' = [heap EXCEPT ![self.Uf] = FlowOf(heap[self.mf], heap[self.Us],
                                                heap[self.Us_n], heap[self.p])]
    /\ pc' = "yield"
    /\ UNCHANGED <<regVars, condT, self, MForm, nextId, parVars, t, x, trace,
                   out, emitted, err>>

\* self.Uf = project(...): a new Function, built from the attributes as they
\* are at the call.
calculate_flow_vector ==
    /\ pc = "flow"
    /\ self' = [self EXCEPT !.Uf = nextId]
    /\ heap' = Collect(heap @@ (nextId :> FlowOf(heap[self.mf], heap[self.Us],
                                                 heap[self.Us_n], heap[self.p])),
                       self', MForm, out)
    /\ nextId' = nextId + 1
    /\ pc' = "yield"
    /\ UNCHANGED <<regVars, condT, MForm, parVars, t, x, trace, out, emitted, err>>

\* Variant: t is advanced before the tuple is yielded.
YieldNextTime ==
    /\ pc = "yield"
    /\ out' = Append(out, [Uf |-> self.Uf, Us |-> self.Us, t |-> FAdd(t, dt)])
    /\ emitted' = Append(emitted, [uf |-> heap[self.Uf], us |-> heap[self.Us],
                                   mf |-> heap[self.mf]])
    /\ pc' = "suspended"
    /\ UNCHANGED <<regVars, condT, objVars, parVars, t, x, trace, err>>

Yield ==
    /\ pc = "yield"
    /\ out' = Append(out, [Uf |-> self.Uf, Us |-> self.Us, t |-> t])
    /\ emitted' = Append(emitted, [uf |-> heap[self.Uf], us |-> heap[self.Us],
                                   mf |-> heap[self.mf]])
    /\ pc' = "suspended"
    /\ UNCHANGED <<regVars, condT, objVars, parVars, t, x, trace, err>>

\* A later next(): the generator resumes after the yield and advances t.
Advance ==
    /\ pc = "suspended"
    /\ t' = FAdd(t, dt)
    /\ pc' = "while"
    /\ UNCHANGED <<regVars, condT, objVars, parVars, x, trace, out, emitted, err>>

Next ==
    \/ \E c \in Conds, n \in {-1} \cup Components, tm \in BOOLEAN :
          add_solid_dirichlet_condition(c, n, tm)
    \/ \E c \in Conds, tm \in BOOLEAN : add_fluid_dirichlet_condition(c, tm)
    \/ Start
    \/ While
    \/ UpdateTimeConditions
    \/ FluidSolve
    \/ SolidSolve
    \/ fluid_solid_coupling
    \/ Snapshot
    \/ calculate_flow_vector
    \/ Yield
    \/ Advance

Spec == Init /\ [][Next]_vars

\* The generator's own steps, and a consumer that keeps asking for the next
\* tuple ("fully consumed").
Drive ==
    \/ Start
    \/ While
    \/ UpdateTimeConditions
    \/ FluidSolve
    \/ SolidSolve
    \/ fluid_solid_coupling
    \/ Snapshot
    \/ calculate_flow_vector
    \/ Yield
    \/ Advance

FairSpec == Init /\ [][Next]_vars /\ WF_vars(Drive)

\* ==== properties ==========================================================
Times == [i \in DOMAIN out |-> out[i].t]

Last(s) == s[Len(s)]

IsPrefix(s, r) == Len(s) <= Len(r) /\ \A i \in DOMAIN s : s[i] = r[i]

StepPattern ==
    <<"fluid", "solid", "coupling",
      "fluid", "solid", "coupling",
      "fluid", "solid", "coupling">>

CouplingHasRun == out # <<>> \/ "coupling" \in Range(trace)

\* C1 as stated: with dt = 0.01 and tf = 0.05 a finished run has yielded the
\* times 0.01, 0.02, 0.03, 0.04, 0.05.
C1_TimesOneToFive ==
    (params.dt = Literal["0.01"] /\ params.tf = Literal["0.05"] /\ pc = "done") =>
        Times = <<Literal["0.01"], Literal["0.02"], Literal["0.03"],
                  Literal["0.04"], Literal["0.05"]>>

\* C1 amended: with dt = 0.01 and tf = 0.05 the run yields exactly 5 tuples
\* and their times are, in order, 0.0, 0.01, 0.02, 0.03, 0.04: each tuple
\* carries the time at which its step started.
C1_TimesZeroToFour ==
    (params.dt = Literal["0.01"] /\ params.tf = Literal["0.05"]) =>
        LET expected == <<FZero, Literal["0.01"], Literal["0.02"],
                          Literal["0.03"], Literal["0.04"]>>
        IN  /\ IsPrefix(Times, expected)
            /\ (pc = "done" => Times = expected)

C1_Witness ==
    /\ params.dt = Literal["0.01"]
    /\ params.tf = Literal["0.05"]
    /\ pc = "done"
    /\ Len(out) = 5

\* C2: at every fluid solve after the first coupling step, the pressure object
\* the fluid form MForm reads is the one currently bound to self.p.
C2_FormReadsCurrentPressure ==
    (pc = "fluid" /\ CouplingHasRun) => MForm.p = self.p

\* Exact (unrounded) products k * a of a small natural number and a float, as
\* three limbs of 27 bits: (x2 * 2^54 + x1 * 2^27 + x0) * 2^e.
ExactTimes(k, a) ==
    LET p0 == k * a.lo
        p1 == k * a.hi + (p0 \div 2^27)
    IN  [x2 |-> p1 \div 2^27, x1 |-> p1 % 2^27, x0 |-> p0 % 2^27, e |-> a.e]

\* The same value with the exponent lowered by d (0..27).
Lower(u, d) ==
    LET c0 == u.x0 \div 2^(27 - d)
        c1 == u.x1 \div 2^(27 - d)
    IN  [x2 |-> u.x2 * 2^d + c1,
         x1 |-> (u.x1 % 2^(27 - d)) * 2^d + c0,
         x0 |-> (u.x0 % 2^(27 - d)) * 2^d,
         e |-> u.e - d]

LimbsZero(u) == u.x2 = 0 /\ u.x1 = 0 /\ u.x0 = 0

LimbsLess(u, v) ==
    \/ u.x2 < v.x2
    \/ u.x2 = v.x2 /\ u.x1 < v.x1
    \/ u.x2 = v.x2 /\ u.x1 = v.x1 /\ u.x0 < v.x0

\* u < v on exact values below 2^58 * 2^e.
ExactLess(u, v) ==
    IF LimbsZero(v) THEN FALSE
    ELSE IF LimbsZero(u) THEN TRUE
    ELSE IF u.e - v.e > 27 THEN FALSE
    ELSE IF v.e - u.e > 27 THEN TRUE
    ELSE IF u.e >= v.e THEN LimbsLess(Lower(u, u.e - v.e), v)
    ELSE LimbsLess(u, Lower(v, v.e - u.e))

\* C3 as stated: a finished run has yielded at most tf/dt tuples.
C3_AtMostTfOverDt ==
    (pc = "done") => ~ExactLess(ExactTimes(1, params.tf), ExactTimes(Len(out), params.dt))

\* C3 amended: a fully consumed run ends (normally, or by a failed solve);
\* every tuple carries a time below tf and the loop ends with t >= tf; the
\* number n of tuples is below tf/dt + 2, and above tf/dt - 1 when the run
\* ends normally.
C3_EndsWithinTwoOfQuotient ==
    /\ <>(pc \in {"done", "failed"})
    /\ [](\A i \in DOMAIN out : FLess(out[i].t, params.tf))
    /\ [](Len(out) >= 2 =>
            ExactLess(ExactTimes(Len(out) - 2, params.dt), ExactTimes(1, params.tf)))
    /\ [](pc = "done" =>
            /\ ~FLess(t, params.tf)
            /\ (~IsZero(params.tf) =>
                  ExactLess(ExactTimes(1, params.tf), ExactTimes(Len(out) + 1, params.dt))))

\* The float sums 0.3, 0.6, 0.8999999999999999 stay below 0.9: a fourth step.
C3_Witness ==
    /\ pc = "done"
    /\ params.dt = Literal["0.3"]
    /\ params.tf = Literal["0.9"]
    /\ Len(out) = 4
    /\ ExactLess(ExactTimes(1, params.tf), ExactTimes(Len(out), params.dt))

\* C4: a failed solve leaves the generator with an exception and ends it: from
\* then on nothing is solved again, no tuple is yielded, t stays, and Us_n and
\* mf_n hold the values of the last yielded step (the initial ones if none).
C4_FailureAborts ==
    [][/\ (pc = "failed" =>
             /\ pc' = "failed"
             /\ trace' = trace
             /\ heap'[self'.Us] = heap[self.Us]
             /\ heap'[self'.mf] = heap[self.mf])
       /\ (err' # "none" =>
             /\ pc' = "failed"
             /\ out' = out
             /\ t' = t
             /\ heap'[self'.Us_n] = heap[self.Us_n]
             /\ heap'[self'.mf_n] = heap[self.mf_n]
             /\ heap'[self'.Us_n] = IF out = <<>> THEN 0 ELSE Last(emitted).us
             /\ heap'[self'.mf_n] = IF out = <<>> THEN 0 ELSE Last(emitted).mf)]_vars

C4_Witness ==
    /\ pc = "failed"
    /\ err = "RuntimeError"
    /\ Len(out) >= 1
    /\ heap[self.Us] # heap[self.Us_n]

\* C5: every registration call appends one condition to the list of its own
\* field only, and the time-dependent list holds exactly the values of the
\* calls made with the time flag set, in call order.
SolidCalls == SelectSeq(calls, LAMBDA c : c.op = "solid")
FluidCalls == SelectSeq(calls, LAMBDA c : c.op = "fluid")
TimedCalls == SelectSeq(calls, LAMBDA c : c.time)

C5_ListsFollowCalls ==
    /\ [i \in DOMAIN sbcs |-> sbcs[i].value]
         = [i \in DOMAIN SolidCalls |-> SolidCalls[i].value]
    /\ [i \in DOMAIN fbcs |-> fbcs[i].value]
         = [i \in DOMAIN FluidCalls |-> FluidCalls[i].value]
    /\ tconditions = [i \in DOMAIN TimedCalls |-> TimedCalls[i].value]

\* C6: within an outer step the solves and coupling steps done so far are a
\* prefix of fluid, solid, coupling repeated three times, and the step reaches
\* its snapshot, flow computation and yield only with all nine done.
C6_ThreeInnerIterations ==
    /\ IsPrefix(trace, StepPattern)
    /\ (pc \in {"snapshot", "flow", "yield", "suspended"} => trace = StepPattern)
    /\ (pc = "fluid" => Len(trace) % 3 = 0 /\ Len(trace) < 9)
    /\ (pc = "solid" => Len(trace) % 3 = 1)
    /\ (pc = "coupling" => Len(trace) % 3 = 2)

C6_Witness == pc = "yield" /\ Len(out) >= 1 /\ trace = StepPattern

\* C7: Us_n and mf_n always hold the values Us and mf had at the end of the
\* last completed step (initially 0); only the snapshot after the third inner
\* iteration changes them, and it runs once per outer step.
LastCompleted(field) ==
    IF pc \in {"flow", "yield"} THEN heap[self[field]]
    ELSE IF out = <<>> THEN 0
    ELSE IF field = "Us" THEN Last(emitted).us ELSE Last(emitted).mf

C7_PreviousIsLastCompleted ==
    /\ [](/\ heap[self.Us_n] = LastCompleted("Us")
          /\ heap[self.mf_n] = LastCompleted("mf"))
    /\ [][/\ self'.Us_n = self.Us_n
          /\ self'.mf_n = self.mf_n
          /\ (\/ heap'[self.Us_n] # heap[self.Us_n]
              \/ heap'[self.mf_n] # heap[self.mf_n]
              \/ pc = "snapshot")
               => /\ pc = "snapshot"
                  /\ pc' = "flow"
                  /\ trace = StepPattern
                  /\ heap'[self.Us_n] = heap[self.Us]
                  /\ heap'[self.mf_n] = heap[self.mf]
                  /\ heap'[self.Us] = heap[self.Us]
                  /\ heap'[self.mf] = heap[self.mf]]_vars

C7_Witness ==
    /\ pc = "coupling"
    /\ Len(out) >= 1
    /\ heap[self.Us] > heap[self.Us_n]
    /\ heap[self.Us_n] > 0

\* C8: while a step is being computed every condition in the time-dependent
\* list has its t set to the step's time, the time the step's tuple carries;
\* a condition outside the list never has a t.
C8_TimeConditionsAtStepTime ==
    /\ (pc \in {"fluid", "solid", "coupling", "snapshot", "flow", "yield"} =>
            \A c \in Range(tconditions) : condT[c] = {t})
    /\ (pc = "suspended" =>
            /\ Last(out).t = t
            /\ \A c \in Range(tconditions) : condT[c] \subseteq {t})
    /\ \A c \in Conds \ Range(tconditions) : condT[c] = {}

C8_Witness ==
    /\ pc = "fluid"
    /\ FLess(FZero, t)
    /\ tconditions # <<>>
    /\ \E c \in Conds : c \notin Range(tconditions)

\* C9: when a flow field is computed Us_n already equals Us, so the
\* displacement-rate term of every yielded flow field is zero.
C9_RateTermIsZero ==
    /\ (pc = "yield" =>
            /\ heap[self.Us_n] = heap[self.Us]
            /\ heap[self.Uf].rate = 0)
    /\ \A i \in DOMAIN out : emitted[i].uf.rate = 0 /\ heap[out[i].Uf].rate = 0

C9_Witness ==
    /\ pc = "yield"
    /\ Len(out) >= 1
    /\ heap[self.Us] # Last(emitted).us
    /\ heap[self.Uf].rate = 0

\* C10: all tuples received so far share one Us object, the problem's current
\* one, so each shows the latest solid state; their Uf objects are pairwise
\* distinct and each still holds the value it was yielded with.
C10_SharedUsFreshUf ==
    \A i \in DOMAIN out :
        /\ out[i].Us = self.Us
        /\ heap[out[i].Us] = heap[self.Us]
        /\ heap[out[i].Uf] = emitted[i].uf
        /\ \A j \in DOMAIN out : j # i => out[j].Uf # out[i].Uf

C10_Witness ==
    /\ Len(out) >= 2
    /\ pc = "suspended"
    /\ heap[out[1].Us] # emitted[1].us
    /\ heap[out[1].Uf] # heap[out[2].Uf]

====
